---- MODULE Spec2Model ----
(***************************************************************************)
(* The retrieval / fusion / rerank pipeline of search_pipeline:            *)
(*   common.py         RankMetric, SearchResult                            *)
(*   fusion_method.py  ChainFusion, ReciprocalRankFusion                   *)
(*   base_searchers.py NullSearcher and the store-backed searchers         *)
(*   rerankers.py      Reranker.retrieve_docs, MSMarcoCrossEncoder.rerank  *)
(*   __init__.py       create_search_fn                                    *)
(* Candidate values are float64 in the program.  Input values are drawn    *)
(* from a small integer range (only their order and their ties are read by *)
(* the code); the scores ReciprocalRankFusion computes are kept as exact   *)
(* fractions [num, den].                                                   *)
(***************************************************************************)
EXTENDS Integers, Sequences, FiniteSets, TLC

VARIABLES
    inputs,     \* fuse: the list of SearchResults handed to fuse
    fusion,     \* fuse: the fusion object, once constructed
    k_arg,      \* fuse: the k handed to ReciprocalRankFusion.__init__ (NoArg: none)
    ranked,     \* fuse: per input, the (id, rank) frame ReciprocalRankFusion builds
    output,     \* fuse: what fuse returned or raised
    retrieval,  \* retrieve: the call SearchResult.retrieve(conn, max_count), once made
    args,       \* create_search_fn: the arguments of the call
    build,      \* create_search_fn: what the call returned or raised
    qpc,        \* search function: position of the running call
    query,      \* search function: the query string of the running call
    results,    \* search function: the searchers' results so far
    fused,      \* search function: what fuse returned, if the pipeline fuses
    answer,     \* search function: what the call returned or raised
    trace,      \* search function: the component calls made, in order
    reranking,  \* search function: what reranker.rerank was called with
    instance,   \* search function: which SearchResult instance each result is
    conn,       \* threads: the duckdb connection the threads share
    threads     \* threads: per thread, the position, query and answer of its call

vars == <<inputs, fusion, k_arg, ranked, output, retrieval,
          args, build, qpc, query, results, fused, answer, trace, reranking, instance,
          conn, threads>>

fuseVars == <<inputs, fusion, k_arg, ranked, output, retrieval>>
pipeVars == <<args, build, qpc, query, results, fused, answer, trace, reranking, instance>>
connVars == <<conn, threads>>

----------------------------------------------------------------------------
(* Bounds of the model *)

\* ids are 1..NumIds
NumIds == 3
\* input values are 1..MaxVal
MaxVal == 2
\* size of one fuse call: one per input SearchResult plus one per candidate row
MaxLoad == 4
\* the k's handed to ReciprocalRankFusion.__init__ are 1..MaxK
MaxK == 2
\* create_search_fn is handed at most MaxSearchers base searchers
MaxSearchers == 2
\* ColbertReranker is built with max_count in 1..MaxCount
MaxCount == 2

Ids == 1..NumIds
Values == 1..MaxVal

----------------------------------------------------------------------------
(* common.py *)

SCORE == "SCORE"
DISTANCE == "DISTANCE"
UNDEFINED == "UNDEFINED"
RankMetric == {SCORE, DISTANCE, UNDEFINED}

\* SearchResult.__init__
SearchResult(tbl, rank_metric, sorted) ==
    [tbl |-> tbl, rank_metric |-> rank_metric, sorted |-> sorted]

\* SearchResult.descending: TRUE / FALSE, or "raise" for any other metric
descending(r) ==
    IF r.rank_metric = SCORE THEN "True"
    ELSE IF r.rank_metric = DISTANCE THEN "False"
    ELSE "raise"

\* SearchResult.col
col(r) ==
    IF r.rank_metric = SCORE THEN "score"
    ELSE IF r.rank_metric = DISTANCE THEN "distance"
    ELSE "undefined_metric"

----------------------------------------------------------------------------
(* Helpers on tables: a table is a sequence of rows [id, value] *)

Range(s) == {s[i] : i \in DOMAIN s}

IdsOf(tbl) == {tbl[i].id : i \in DOMAIN tbl}

RECURSIVE Concat(_)
Concat(tbls) ==
    IF tbls = <<>> THEN <<>> ELSE Head(tbls) \o Concat(Tail(tbls))

\* every arrangement of the rows of a set: the row order of a frame whose
\* producer (group_by, unique without maintain_order) promises none
RECURSIVE Arrangements(_)
Arrangements(S) ==
    IF S = {} THEN {<<>>}
    ELSE UNION {{<<x>> \o s : s \in Arrangements(S \ {x})} : x \in S}

RECURSIVE SumSeq(_)
SumSeq(s) == IF s = <<>> THEN 0 ELSE Head(s) + SumSeq(Tail(s))

----------------------------------------------------------------------------
(* What a call returns or raises *)

NoCall == [kind |-> "none"]
Return(v) == [kind |-> "return", value |-> v]
Raise(e) == [kind |-> "raise", error |-> e]

None == "None"

\* an optional argument: left out, or given
NoArg == [given |-> FALSE]
Arg(v) == [given |-> TRUE, value |-> v]

\* no fusion object yet
NoFusion == [cls |-> "none"]

----------------------------------------------------------------------------
(* fusion_method.py: ReciprocalRankFusion *)

\* the default of __init__'s parameter k
DefaultK == 60

\* ReciprocalRankFusion.__init__(k, max_count); k = NoArg when the caller gives none
RRFInit(k, max_count) ==
    LET k_param == IF k.given THEN k.value ELSE DefaultK
    IN  [cls |-> "ReciprocalRankFusion",
         rank_metric |-> SCORE,
         max_count |-> max_count,
         k |-> 60]

\* Expr.rank(method="min"): one more than the number of rows that are better
MinRank(tbl, i, desc) ==
    1 + Cardinality({j \in DOMAIN tbl :
                        IF desc THEN tbl[j].value > tbl[i].value
                                ELSE tbl[j].value < tbl[i].value})

\* Expr.rank(method="dense", descending=desc) of row i: one more than the
\* number of distinct values that are better than row i's
DenseRank(tbl, i, desc) ==
    1 + Cardinality({tbl[j].value : j \in
                        {j \in DOMAIN tbl :
                            IF desc THEN tbl[j].value > tbl[i].value
                                    ELSE tbl[j].value < tbl[i].value}})

\* from_arrow(r.tbl).with_columns(rank).drop(r.col()): the (id, rank) frame
RankFrame(r) ==
    [i \in DOMAIN r.tbl |->
        [id |-> r.tbl[i].id, rank |-> DenseRank(r.tbl, i, descending(r) = "True")]]

RankFrames(srs) == [n \in DOMAIN srs |-> RankFrame(srs[n])]

\* group_by("id").agg(rank): the ranks of one id, in the concatenated frame
RECURSIVE RanksOf(_, _)
RanksOf(frame, id) ==
    IF frame = <<>> THEN <<>>
    ELSE (IF Head(frame).id = id THEN <<Head(frame).rank>> ELSE <<>>)
         \o RanksOf(Tail(frame), id)

\* list.eval(element + k)
PlusK(ranks, k) == [i \in DOMAIN ranks |-> ranks[i] + k]

\* 1 / ranks.list.eval(element + k).list.sum()
RRFScore(ranks, k) == [num |-> 1, den |-> SumSeq(PlusK(ranks, k))]

\* the grouped frame an inner join of the inputs would give: only the ids
\* that every input holds
RRFRowsOfSharedIds(srs, k) ==
    LET frame == Concat(RankFrames(srs))
    IN  {[id |-> id, value |-> RRFScore(RanksOf(frame, id), k)] :
            id \in {frame[i].id : i \in {j \in DOMAIN frame :
                        \A n \in DOMAIN srs : frame[j].id \in IdsOf(srs[n].tbl)}}}

\* the rows of the grouped frame, one per id
RRFRows(srs, k) ==
    LET frame == Concat(RankFrames(srs))
    IN  {[id |-> id, value |-> RRFScore(RanksOf(frame, id), k)] :
            id \in {frame[i].id : i \in DOMAIN frame}}

\* a ReciprocalRankFusion that would pass on the tags of its first input
RRFFuseKeepsTags(self, srs) ==
    IF srs = <<>> THEN {Raise("ValueError")}
    ELSE IF \E n \in DOMAIN srs : descending(srs[n]) = "raise"
         THEN {Raise("Exception")}
    ELSE {Return(SearchResult(t, srs[1].rank_metric, srs[1].sorted)) :
             t \in Arrangements(RRFRows(srs, self.k))}

\* ReciprocalRankFusion.fuse
RRFFuseOutcomes(self, srs) ==
    IF srs = <<>> THEN {Raise("ValueError")}
    ELSE IF \E n \in DOMAIN srs : descending(srs[n]) = "raise"
         THEN {Raise("Exception")}
    ELSE {Return(SearchResult(t, SCORE, FALSE)) : t \in Arrangements(RRFRows(srs, self.k))}

----------------------------------------------------------------------------
(* fusion_method.py: ChainFusion *)

ChainInit == [cls |-> "ChainFusion"]

\* with_std_schema with the two columns taken in the wrong order
SwappedSchema(tbl) ==
    [i \in DOMAIN tbl |-> [id |-> tbl[i].value, value |-> tbl[i].id]]

\* with_std_schema: the two columns renamed to (id, score) and cast to
\* (uint32, float64); every id of the model is within uint32
with_std_schema(tbl) ==
    [i \in DOMAIN tbl |-> [id |-> tbl[i].id, value |-> tbl[i].value]]

\* no dedupe at all: every row is kept
KeepAll(tbl) == {Range(tbl)}

\* a dedupe that would keep the rows of one arbitrary id only
UniqueOfAnyId(tbl) ==
    {{tbl[f[id]] : id \in {one}} :
        one \in IdsOf(tbl),
        f \in {g \in [IdsOf(tbl) -> DOMAIN tbl] : \A id \in IdsOf(tbl) : tbl[g[id]].id = id}}

\* DataFrame.unique(subset=["id"], keep="any"): one row per id, and no promise
\* of which; each element is one set of rows the call may keep
Unique(tbl) ==
    {{tbl[f[id]] : id \in IdsOf(tbl)} :
        f \in {g \in [IdsOf(tbl) -> DOMAIN tbl] : \A id \in IdsOf(tbl) : tbl[g[id]].id = id}}

\* a ChainFusion that would answer an empty list with an empty result
ChainFuseOfNothing(srs) ==
    LET concat_tbl == Concat([n \in DOMAIN srs |-> with_std_schema(srs[n].tbl)])
    IN  {Return(SearchResult(t, UNDEFINED, FALSE)) :
            t \in UNION {Arrangements(rows) : rows \in Unique(concat_tbl)}}

\* a ChainFusion that would only concatenate, with no dedupe
ChainFuseWithoutDedupe(srs) ==
    IF srs = <<>> THEN {Raise("ArrowInvalid")}
    ELSE LET concat_tbl == Concat([n \in DOMAIN srs |-> with_std_schema(srs[n].tbl)])
         IN  {Return(SearchResult(concat_tbl, UNDEFINED, FALSE))}

\* ChainFusion.fuse
ChainFuseOutcomes(srs) ==
    IF srs = <<>> THEN {Raise("ArrowInvalid")}
    ELSE LET concat_tbl == Concat([n \in DOMAIN srs |-> with_std_schema(srs[n].tbl)])
         IN  {Return(SearchResult(t, UNDEFINED, FALSE)) :
                 t \in UNION {Arrangements(rows) : rows \in Unique(concat_tbl)}}

----------------------------------------------------------------------------
(* The inputs of a fuse call *)

\* the rows are best first for the metric
BestFirst(tbl, metric) ==
    \A i, j \in DOMAIN tbl :
        i < j => IF metric = SCORE THEN tbl[i].value >= tbl[j].value
                                   ELSE tbl[i].value <= tbl[j].value

\* the size of a list of SearchResults: one per result plus one per row
RECURSIVE Load(_)
Load(srs) ==
    IF srs = <<>> THEN 0 ELSE 1 + Len(Head(srs).tbl) + Load(Tail(srs))

RECURSIVE AllIds(_)
AllIds(srs) ==
    IF srs = <<>> THEN {} ELSE IdsOf(Head(srs).tbl) \cup AllIds(Tail(srs))

\* The code reads ids for equality only, so the lists are enumerated up to a
\* renaming of the ids: the next id a list introduces is the smallest unused.
FreshIds(srs) == {id \in Ids : \A u \in Ids \ AllIds(srs) : id <= u} \ AllIds(srs)

\* an empty SearchResult as a producer can tag it: sorted only with an ordering metric
EmptyResults ==
    {SearchResult(<<>>, m, FALSE) : m \in RankMetric} \cup
    {SearchResult(<<>>, m, TRUE) : m \in {SCORE, DISTANCE}}

\* srs with one more row in its last result: no id twice in a table, and a
\* table tagged sorted stays best first
AddRow(srs) ==
    IF srs = <<>> THEN {}
    ELSE LET n == Len(srs)
             last == srs[n]
         IN  {[srs EXCEPT ![n].tbl = t] :
                 t \in {u \in {Append(last.tbl, [id |-> id, value |-> v]) :
                                   id \in (AllIds(srs) \cup FreshIds(srs)) \ IdsOf(last.tbl),
                                   v \in Values} :
                           last.sorted => BestFirst(u, last.rank_metric)}}

\* the lists one unit larger than srs: one more (empty) result, or one more row
\* in the last result
Extend(srs) == {Append(srs, r) : r \in EmptyResults} \cup AddRow(srs)

\* the lists of SearchResults of size exactly load
RECURSIVE InputsOfLoad(_)
InputsOfLoad(load) ==
    IF load = 0 THEN {<<>>}
    ELSE UNION {Extend(srs) : srs \in InputsOfLoad(load - 1)}

\* the worked example of the spec: values in tenths
ExampleInputs ==
    << SearchResult(<<[id |-> 1, value |-> 9], [id |-> 2, value |-> 5]>>, SCORE, FALSE),
       SearchResult(<<[id |-> 2, value |-> 1], [id |-> 3, value |-> 4]>>, DISTANCE, FALSE) >>

FuseInputs == UNION {InputsOfLoad(n) : n \in 0..MaxLoad} \cup {ExampleInputs}

----------------------------------------------------------------------------
(* Direct calls of fuse *)

\* The SearchResult instances of a call, numbered in the order their
\* constructor ran: those of the searchers' results, that of the fused result
\* and that of the answer (0: none yet)
NoInstances == [made |-> 0, results |-> <<>>, fused |-> 0, answer |-> 0]

\* SearchResult(...) run by a searcher, by fuse, by rerank
NewResult(inst) ==
    [inst EXCEPT !.made = @ + 1, !.results = Append(@, inst.made + 1)]
\* a fuse that would hand back the instance of its first input
FirstInputAgain(inst) == [inst EXCEPT !.fused = inst.results[1]]

NewFused(inst) == [inst EXCEPT !.made = @ + 1, !.fused = inst.made + 1]
NewAnswer(inst) == [inst EXCEPT !.made = @ + 1, !.answer = inst.made + 1]

\* the answer is an instance that exists already
SameAnswer(inst, which) == [inst EXCEPT !.answer = which]

\* no thread runs a call, no connection is in use
ConnIdle ==
    /\ conn = NoCall
    /\ threads = <<>>

PipeIdle ==
    /\ args = NoArg
    /\ build = NoCall
    /\ qpc = "idle"
    /\ query = ""
    /\ results = <<>>
    /\ fused = NoCall
    /\ answer = NoCall
    /\ trace = <<>>
    /\ reranking = NoCall
    /\ instance = NoInstances

FuseInit ==
    /\ inputs \in FuseInputs
    /\ fusion = NoFusion
    /\ k_arg = NoArg
    /\ ranked = <<>>
    /\ output = NoCall
    /\ retrieval = NoCall
    /\ PipeIdle
    /\ ConnIdle

\* ChainFusion()
ConstructChain ==
    /\ fusion = NoFusion
    /\ fusion' = ChainInit
    /\ UNCHANGED <<inputs, k_arg, ranked, output, retrieval>>
    /\ UNCHANGED <<pipeVars, connVars>>

\* ReciprocalRankFusion() or ReciprocalRankFusion(k=k)
ConstructRRF ==
    /\ fusion = NoFusion
    /\ \E k \in {NoArg} \cup {Arg(n) : n \in 1..MaxK} :
         /\ k_arg' = k
         /\ fusion' = RRFInit(k, None)
    /\ UNCHANGED <<inputs, ranked, output, retrieval>>
    /\ UNCHANGED <<pipeVars, connVars>>

\* fusion.fuse(inputs) on a ChainFusion
ChainFuse ==
    /\ fusion.cls = "ChainFusion"
    /\ output = NoCall
    /\ output' \in ChainFuseOutcomes(inputs)
    /\ UNCHANGED <<inputs, fusion, k_arg, ranked, retrieval>>
    /\ UNCHANGED <<pipeVars, connVars>>

\* fusion.fuse(inputs) on a ReciprocalRankFusion
RRFFuse ==
    /\ fusion.cls = "ReciprocalRankFusion"
    /\ output = NoCall
    /\ output' \in RRFFuseOutcomes(fusion, inputs)
    /\ ranked' = IF output'.kind = "return" THEN RankFrames(inputs) ELSE <<>>
    /\ UNCHANGED <<inputs, fusion, k_arg, retrieval>>
    /\ UNCHANGED <<pipeVars, connVars>>

FuseNext == ConstructChain \/ ConstructRRF \/ ChainFuse \/ RRFFuse

SpecFuse == FuseInit /\ [][FuseNext]_vars

----------------------------------------------------------------------------
(* common.py: SearchResult.retrieve *)

\* an order_by_sql that would order a result of any other metric as a score
OrderAnyMetricAsScore(r) ==
    IF r.rank_metric = DISTANCE THEN Return(<<"distance", "asc">>)
    ELSE Return(<<"score", "desc">>)

\* SearchResult.order_by_sql: the column and the direction of the order by
order_by_sql(r) ==
    IF r.rank_metric = SCORE THEN Return(<<"score", "desc">>)
    ELSE IF r.rank_metric = DISTANCE THEN Return(<<"distance", "asc">>)
    ELSE Raise("Exception")

\* a retrieve that would cut the rows to max_count before ordering them
RetrieveLimitsFirst(self, max_count) ==
    IF ~self.sorted /\ order_by_sql(self).kind = "raise" THEN {Raise("Exception")}
    ELSE LET kept == IF Len(self.tbl) > max_count THEN max_count ELSE Len(self.tbl)
             cut == {SubSeq(a, 1, kept) : a \in Arrangements(DOMAIN self.tbl)}
             ordered == IF self.sorted THEN cut
                        ELSE {a \in cut :
                                BestFirst([i \in DOMAIN a |-> self.tbl[a[i]]], self.rank_metric)}
         IN  {Return([i \in 1..kept |-> [entry |-> self.tbl[a[i]].id]]) : a \in ordered}

\* self.retrieve(conn, max_count): the display rows of the entries joined with
\* the rows of the table (every id is the id of one entry).  The query has an
\* order by only when the result is not sorted, and without one the store
\* promises no row order; it has a limit only when the table has more than
\* max_count rows.
retrieve(self, max_count) ==
    IF ~self.sorted /\ order_by_sql(self).kind = "raise" THEN {Raise("Exception")}
    ELSE LET joined == Arrangements(DOMAIN self.tbl)
             ordered == IF self.sorted THEN joined
                        ELSE {a \in joined :
                                BestFirst([i \in DOMAIN a |-> self.tbl[a[i]]], self.rank_metric)}
             kept == IF Len(self.tbl) > max_count THEN max_count ELSE Len(self.tbl)
         IN  {Return([i \in 1..kept |-> [entry |-> self.tbl[a[i]].id]]) : a \in ordered}

RetrieveCall(self, max_count, out) ==
    [kind |-> "call", self |-> self, max_count |-> max_count, out |-> out]

\* a caller retrieves the display rows of a SearchResult: the one of a list
\* that holds a single one
Retrieve ==
    /\ retrieval = NoCall
    /\ Len(inputs) = 1
    /\ \E max_count \in 0..MaxCount :
       \E o \in retrieve(inputs[1], max_count) :
          retrieval' = RetrieveCall(inputs[1], max_count, o)
    /\ UNCHANGED <<inputs, fusion, k_arg, ranked, output>>
    /\ UNCHANGED <<pipeVars, connVars>>

RetrieveNext == FuseNext \/ Retrieve

SpecRetrieve == FuseInit /\ [][RetrieveNext]_vars

----------------------------------------------------------------------------
(* base_searchers.py: what the base searchers hand over *)

\* NullSearcher()
NullSearcherInit ==
    [cls |-> "NullSearcher", rank_metric |-> UNDEFINED, use_index |-> FALSE]

\* DuckDBFullTextSearcher(conn)
FullTextInit ==
    [cls |-> "DuckDBFullTextSearcher", rank_metric |-> SCORE, use_index |-> FALSE]

\* VectorSimilaritySearcher(conn, model_name, max_count, use_index): the index
\* answers with distances, the exact scan with similarities
VectorInit(use_index) ==
    [cls |-> "VectorSimilaritySearcher",
     rank_metric |-> IF use_index THEN DISTANCE ELSE SCORE,
     use_index |-> use_index]

Searchers == {NullSearcherInit, FullTextInit, VectorInit(FALSE), VectorInit(TRUE)}

\* the tables a store can answer with after the results srs of the same query,
\* of at most room rows: the last result of each list grown from srs
RECURSIVE Grow(_, _)
Grow(srs, room) ==
    {srs} \cup (IF room <= 0 THEN {} ELSE UNION {Grow(x, room - 1) : x \in AddRow(srs)})

Answers(srs, rank_metric, sorted, room) ==
    {x[Len(x)] : x \in Grow(Append(srs, SearchResult(<<>>, rank_metric, sorted)), room)}

\* a NullSearcher that would refuse the empty query and tag its result Score
NullSearcherChoosy(s, q, srs, room) ==
    IF s.cls = "NullSearcher"
    THEN IF q = "" THEN {Raise("StoreError")}
         ELSE {Return(SearchResult(<<>>, SCORE, FALSE))}
    ELSE IF s.cls = "DuckDBFullTextSearcher"
    THEN {Raise("StoreError")} \cup
         {Return(r) : r \in Answers(srs, s.rank_metric, FALSE, room)}
    ELSE {Raise("StoreError")} \cup
         {Return(r) : r \in Answers(srs, s.rank_metric, TRUE, room)}

\* s.search(q), after the results srs: NullSearcher.search returns the empty
\* table; DuckDBFullTextSearcher.search returns the scored rows in no promised
\* order; VectorSimilaritySearcher.search returns the nearest rows best first;
\* the two that ask the store raise when it fails
search(s, q, srs, room) ==
    IF s.cls = "NullSearcher"
    THEN {Return(SearchResult(<<>>, UNDEFINED, FALSE))}
    ELSE IF s.cls = "DuckDBFullTextSearcher"
    THEN {Raise("StoreError")} \cup
         {Return(r) : r \in Answers(srs, s.rank_metric, FALSE, room)}
    ELSE {Raise("StoreError")} \cup
         {Return(r) : r \in Answers(srs, s.rank_metric, TRUE, room)}

----------------------------------------------------------------------------
(* rerankers.py *)

NoReranker == [cls |-> "none"]

\* MSMarcoCrossEncoder(conn)
MSMarcoInit == [cls |-> "MSMarcoCrossEncoder"]

\* JinaRerankerV2(conn)
JinaInit == [cls |-> "JinaRerankerV2"]

\* ColbertReranker(conn, max_count)
ColbertInit(max_count) == [cls |-> "ColbertReranker", max_count |-> max_count]

Rerankers == {MSMarcoInit, JinaInit} \cup {ColbertInit(k) : k \in 1..MaxCount}

\* the relevance model: a fixed function of the query and the document
Relevance(q, id) == 1 + ((id + Len(q)) % MaxVal)

\* a left join would keep the rows that have no document
LeftJoinDocs(tbl, present) ==
    Arrangements({[id |-> tbl[i].id, doc |-> tbl[i].id] : i \in DOMAIN tbl})

\* Reranker.retrieve_docs: the join of the rows with the documents table, in
\* no promised order; present is the set of ids the table has a document for
retrieve_docs(tbl, present) ==
    UNION {Arrangements(rows) :
              rows \in {{[id |-> tbl[i].id, doc |-> tbl[i].id] :
                           i \in {j \in DOMAIN tbl : tbl[j].id \in present}}}}

\* encoder.predict / model.compute_score: one score per (query, doc) pair, in
\* the order of the pairs
Scores(q, docs) == [i \in DOMAIN docs |-> Relevance(q, docs[i].doc)]

\* the orders of the positions P by score, highest first, equal scores in
\* any order
RECURSIVE BestFirstOrders(_, _)
BestFirstOrders(P, scores) ==
    IF P = {} THEN {<<>>}
    ELSE UNION {{<<x>> \o s : s \in BestFirstOrders(P \ {x}, scores)} :
                   x \in {p \in P : \A r \in P : scores[p] >= scores[r]}}

\* a colbert.rerank that would return the first k documents as they came
ColbertRankAsFetched(q, docs, k) ==
    LET scores == Scores(q, docs)
        kept == IF k < Len(docs) THEN k ELSE Len(docs)
    IN  {[r \in 1..kept |-> [result_index |-> r, score |-> scores[r]]]}

\* colbert.rerank(query, documents, k): the k best documents by score, best
\* first, each with its position in documents; equal scores in any order
ColbertRank(q, docs, k) ==
    LET scores == Scores(q, docs)
        kept == IF k < Len(docs) THEN k ELSE Len(docs)
    IN  {[r \in 1..kept |-> [result_index |-> s[r], score |-> scores[s[r]]]] :
            s \in BestFirstOrders(DOMAIN docs, scores)}

\* a reranker that would pair the fetched scores with the ids in the order of
\* its input table
RerankPairsByPosition(self, q, sr, present) ==
    {Return(SearchResult([i \in DOMAIN docs |->
                            [id |-> SelectSeq(sr.tbl, LAMBDA row : row.id \in present)[i].id,
                             value |-> Scores(q, docs)[i]]],
                         SCORE, FALSE)) :
        docs \in retrieve_docs(sr.tbl, present)}

\* MSMarcoCrossEncoder.rerank and JinaRerankerV2.rerank: the fetched ids with
\* their scores, unsorted; ColbertReranker.rerank: the ids of the ranked
\* documents, taken by result_index, with their scores, tagged sorted
rerank(self, q, sr, present) ==
    IF self.cls = "ColbertReranker"
    THEN UNION {{Return(SearchResult([r \in DOMAIN reranked_docs |->
                                        [id |-> docs[reranked_docs[r].result_index].id,
                                         value |-> reranked_docs[r].score]],
                                     SCORE, TRUE)) :
                    reranked_docs \in ColbertRank(q, docs, self.max_count)} :
                docs \in retrieve_docs(sr.tbl, present)}
    ELSE {Return(SearchResult([i \in DOMAIN docs |->
                                 [id |-> docs[i].id, value |-> Scores(q, docs)[i]]],
                              SCORE, FALSE)) :
             docs \in retrieve_docs(sr.tbl, present)}

----------------------------------------------------------------------------
(* __init__.py: create_search_fn *)

\* the function create_search_fn returns: the searchers it calls, the fusion
\* method it fuses with (fuses = FALSE: the lone searcher's result is passed
\* on), and the reranker wrapped around it
SearchFn(searchers, fuses, fusion_method, reranker) ==
    [searchers |-> searchers, fuses |-> fuses,
     fusion_method |-> fusion_method, reranker |-> reranker]

\* base_searchers: one BaseSearcher, or a list of them
One(s) == [isinstance |-> "BaseSearcher", it |-> s]
List(l) == [isinstance |-> "list", it |-> l]

\* lines 14-15: a lone BaseSearcher is wrapped in a list
AsList(base_searchers) ==
    IF base_searchers.isinstance = "BaseSearcher"
    THEN <<base_searchers.it>>
    ELSE base_searchers.it

\* create_search_fn without the check for two or more searchers
CreateWithoutFusionCheck(base_searchers, fusion_method, reranker) ==
    LET searchers == AsList(base_searchers)
    IN  IF Len(searchers) = 0 THEN Raise("Exception")
        ELSE IF Len(searchers) = 1
        THEN IF fusion_method # NoFusion THEN Raise("AssertionError")
             ELSE Return(SearchFn(searchers, FALSE, NoFusion, reranker))
        ELSE Return(SearchFn(searchers, TRUE, fusion_method, reranker))

\* create_search_fn without the check for one searcher
CreateWithoutLoneCheck(base_searchers, fusion_method, reranker) ==
    LET searchers == AsList(base_searchers)
    IN  IF Len(searchers) = 0 THEN Raise("Exception")
        ELSE IF Len(searchers) = 1
        THEN Return(SearchFn(searchers, FALSE, NoFusion, reranker))
        ELSE IF fusion_method = NoFusion THEN Raise("AssertionError")
             ELSE Return(SearchFn(searchers, TRUE, fusion_method, reranker))

\* create_search_fn without the check for no searcher
CreateWithoutEmptyCheck(base_searchers, fusion_method, reranker) ==
    LET searchers == AsList(base_searchers)
    IN  IF Len(searchers) = 1
        THEN IF fusion_method # NoFusion THEN Raise("AssertionError")
             ELSE Return(SearchFn(searchers, FALSE, NoFusion, reranker))
        ELSE IF fusion_method = NoFusion THEN Raise("AssertionError")
             ELSE Return(SearchFn(searchers, TRUE, fusion_method, reranker))

\* create_search_fn(base_searchers, fusion_method=..., reranker=...)
create_search_fn(base_searchers, fusion_method, reranker) ==
    LET searchers == AsList(base_searchers)
    IN  IF Len(searchers) = 0 THEN Raise("Exception")
        ELSE IF Len(searchers) = 1
        THEN IF fusion_method # NoFusion THEN Raise("AssertionError")
             ELSE Return(SearchFn(searchers, FALSE, NoFusion, reranker))
        ELSE IF fusion_method = NoFusion THEN Raise("AssertionError")
             ELSE Return(SearchFn(searchers, TRUE, fusion_method, reranker))

----------------------------------------------------------------------------
(* Building a pipeline and running one query through it *)

RECURSIVE SeqsUpTo(_, _)
SeqsUpTo(S, n) ==
    IF n = 0 THEN {<<>>}
    ELSE LET shorter == SeqsUpTo(S, n - 1)
         IN  shorter \cup {Append(l, x) : l \in shorter, x \in S}

Queries == {"", "q"}

FuseIdle ==
    /\ inputs = <<>>
    /\ fusion = NoFusion
    /\ k_arg = NoArg
    /\ ranked = <<>>
    /\ output = NoCall
    /\ retrieval = NoCall

Init ==
    /\ FuseIdle
    /\ \E bs \in {One(s) : s \in Searchers} \cup {List(l) : l \in SeqsUpTo(Searchers, MaxSearchers)} :
       \E rr \in {NoReranker} \cup Rerankers :
          \/ args = [base_searchers |-> bs, fusion_method |-> NoFusion, reranker |-> rr]
          \/ args = [base_searchers |-> bs, fusion_method |-> ChainInit, reranker |-> rr]
          \/ args = [base_searchers |-> bs, fusion_method |-> RRFInit(NoArg, None), reranker |-> rr]
    /\ build = NoCall
    /\ qpc = "idle"
    /\ query = ""
    /\ results = <<>>
    /\ fused = NoCall
    /\ answer = NoCall
    /\ trace = <<>>
    /\ reranking = NoCall
    /\ instance = NoInstances
    /\ ConnIdle

\* the call create_search_fn(...)
Build ==
    /\ build = NoCall
    /\ build' = create_search_fn(args.base_searchers, args.fusion_method, args.reranker)
    /\ UNCHANGED <<args, qpc, query, results, fused, answer, trace, reranking, instance>>
    /\ UNCHANGED <<fuseVars, connVars>>

Called(op, who, q) == [op |-> op, who |-> who, q |-> q]

\* fn(q) is entered.  A fusing function looks up fusion_method.fuse before it
\* calls the searchers, which raises when fusion_method is None.
StartQuery ==
    /\ build.kind = "return"
    /\ qpc = "idle"
    /\ \E q \in Queries :
        /\ query' = q
        /\ IF build.value.fuses /\ build.value.fusion_method = NoFusion
           THEN qpc' = "raised" /\ answer' = Raise("AttributeError")
           ELSE qpc' = "search" /\ answer' = answer
    /\ UNCHANGED <<args, build, results, fused, trace, reranking, instance>>
    /\ UNCHANGED <<fuseVars, connVars>>

\* a function that would fall back to the results it has when a searcher
\* raises, and return their rows
SearchFallsBack ==
    /\ qpc = "search"
    /\ Len(results) < Len(build.value.searchers)
    /\ LET i == Len(results) + 1
           n == Len(build.value.searchers)
       IN  \E o \in search(build.value.searchers[i], query, results,
                             MaxLoad - Load(results) - 1 - (n - i)) :
              /\ trace' = Append(trace, Called("search", i, query))
              /\ IF o.kind = "return"
                 THEN /\ results' = Append(results, o.value)
                      /\ instance' = NewResult(instance)
                      /\ UNCHANGED <<qpc, answer>>
                 ELSE /\ qpc' = "returned"
                      /\ answer' = Return(SearchResult(Concat([j \in DOMAIN results |-> results[j].tbl]),
                                                       UNDEFINED, FALSE))
                      /\ instance' = NewAnswer(instance)
                      /\ UNCHANGED results
    /\ UNCHANGED <<args, build, query, fused, reranking>>
    /\ UNCHANGED <<fuseVars, connVars>>

\* the next s.search(q), in the order of base_searchers
Search ==
    /\ qpc = "search"
    /\ Len(results) < Len(build.value.searchers)
    /\ LET i == Len(results) + 1
           n == Len(build.value.searchers)
       IN  \E o \in search(build.value.searchers[i], query, results,
                             MaxLoad - Load(results) - 1 - (n - i)) :
              /\ trace' = Append(trace, Called("search", i, query))
              /\ IF o.kind = "return"
                 THEN /\ results' = Append(results, o.value)
                      /\ instance' = NewResult(instance)
                      /\ UNCHANGED <<qpc, answer>>
                 ELSE /\ qpc' = "raised"
                      /\ answer' = o
                      /\ UNCHANGED <<results, instance>>
    /\ UNCHANGED <<args, build, query, fused, reranking>>
    /\ UNCHANGED <<fuseVars, connVars>>

\* a fusing function that would hand fuse the results last searcher first
FuseLastFirst ==
    /\ qpc = "search"
    /\ build.value.fuses
    /\ Len(results) = Len(build.value.searchers)
    /\ LET handed == [i \in DOMAIN results |-> results[Len(results) + 1 - i]]
       IN  \E o \in (IF build.value.fusion_method.cls = "ChainFusion"
                     THEN ChainFuseOutcomes(handed)
                     ELSE RRFFuseOutcomes(build.value.fusion_method, handed)) :
              /\ trace' = Append(trace, Called("fuse", 0, query))
              /\ inputs' = handed
              /\ fused' = o
              /\ IF o.kind = "return"
                 THEN /\ qpc' = "fused"
                      /\ instance' = NewFused(instance)
                      /\ UNCHANGED answer
                 ELSE /\ qpc' = "raised"
                      /\ answer' = o
                      /\ UNCHANGED instance
    /\ UNCHANGED <<args, build, query, results, reranking>>
    /\ UNCHANGED <<fusion, k_arg, ranked, output, retrieval, connVars>>

\* fusion_method.fuse([...]) on the results of all the searchers
Fuse ==
    /\ qpc = "search"
    /\ build.value.fuses
    /\ Len(results) = Len(build.value.searchers)
    /\ \E o \in (IF build.value.fusion_method.cls = "ChainFusion"
                 THEN ChainFuseOutcomes(results)
                 ELSE RRFFuseOutcomes(build.value.fusion_method, results)) :
          /\ trace' = Append(trace, Called("fuse", 0, query))
          /\ inputs' = results
          /\ fused' = o
          /\ IF o.kind = "return"
             THEN /\ qpc' = "fused"
                  /\ instance' = NewFused(instance)
                  /\ UNCHANGED answer
             ELSE /\ qpc' = "raised"
                  /\ answer' = o
                  /\ UNCHANGED instance
    /\ UNCHANGED <<args, build, query, results, reranking>>
    /\ UNCHANGED <<fusion, k_arg, ranked, output, retrieval, connVars>>

\* what the inner function would return if it rebuilt the lone searcher's
\* result as an unsorted one
InnerRetagged ==
    IF build.value.fuses THEN fused.value
    ELSE SearchResult(results[1].tbl, results[1].rank_metric, FALSE)

\* the instance the inner function searcher(q) returned
InnerInstance ==
    IF build.value.fuses THEN instance.fused ELSE instance.results[1]

\* what the inner function searcher(q) returned
Inner ==
    IF build.value.fuses THEN fused.value ELSE results[1]

InnerDone ==
    \/ qpc = "fused"
    \/ qpc = "search" /\ ~build.value.fuses /\ Len(results) = 1

\* the arguments of reranker.rerank(q, results), and the ids the documents
\* table holds a text for at the time of the call
RerankCall(q, sr, present) ==
    [kind |-> "call", q |-> q, results |-> sr, present |-> present]

\* a wrapper that would hand the reranker the first searcher's result instead
\* of what the inner function returned
RerankFirstResult ==
    /\ InnerDone
    /\ build.value.reranker # NoReranker
    /\ \E present \in SUBSET IdsOf(results[1].tbl) :
       \E o \in rerank(build.value.reranker, query, results[1], present) :
          /\ trace' = Append(trace, Called("rerank", 0, query))
          /\ reranking' = RerankCall(query, results[1], present)
          /\ answer' = o
          /\ instance' = NewAnswer(instance)
          /\ qpc' = "returned"
    /\ UNCHANGED <<args, build, query, results, fused>>
    /\ UNCHANGED <<fuseVars, connVars>>

\* reranker.rerank(q, searcher(q)), and its result is returned
Rerank ==
    /\ InnerDone
    /\ build.value.reranker # NoReranker
    /\ \E present \in SUBSET IdsOf(Inner.tbl) :
       \E o \in rerank(build.value.reranker, query, Inner, present) :
          /\ trace' = Append(trace, Called("rerank", 0, query))
          /\ reranking' = RerankCall(query, Inner, present)
          /\ answer' = o
          /\ instance' = NewAnswer(instance)
          /\ qpc' = "returned"
    /\ UNCHANGED <<args, build, query, results, fused>>
    /\ UNCHANGED <<fuseVars, connVars>>

\* fn(q) returns searcher(q) when there is no reranker
Finish ==
    /\ InnerDone
    /\ build.value.reranker = NoReranker
    /\ answer' = Return(Inner)
    /\ instance' = SameAnswer(instance, InnerInstance)
    /\ qpc' = "returned"
    /\ UNCHANGED <<args, build, query, results, fused, trace, reranking>>
    /\ UNCHANGED <<fuseVars, connVars>>

Next == Build \/ StartQuery \/ Search \/ Fuse \/ Rerank \/ Finish

Spec == Init /\ [][Next]_vars

----------------------------------------------------------------------------
(* Threads calling one search function *)

\* The function is create_search_fn(DuckDBFullTextSearcher(conn)): each call
\* is first.search(q), which runs self.conn.execute(sql, [query]).arrow() on
\* the connection all the calls share.  execute keeps the result of the
\* statement in the connection and returns the connection; arrow hands over
\* the result the connection holds when it runs.

\* how many threads call the function
NumThreads == 2
Threads == 1..NumThreads

\* match_bm25 of an entry no term of the query matches
NULL == 0

\* the connection's result: none open, or the rows of the last statement
NoResult == [open |-> FALSE]
Result(tbl) == [open |-> TRUE, tbl |-> tbl]

\* the stores: per entry, the bm25 score the index gives it for the query
\* "q", or NULL
Stores == [Ids -> {NULL} \cup Values]

\* duckdb.connect(...), with the store db behind it
Connect(db) == [db |-> db, result |-> NoResult]

\* fts_main_entries.match_bm25(id, q): the empty query has no term
match_bm25(db, id, q) == IF q = "" THEN NULL ELSE db[id]

\* select id, match_bm25(id, $1) as score from entries where score is not null
\* (max_count is None: no limit).  The rows are listed by id: this
\* specification compares results as sets of candidates.
FullTextRows(db, q) ==
    LET rows == {[id |-> id, value |-> match_bm25(db, id, q)] :
                    id \in {i \in Ids : match_bm25(db, i, q) # NULL}}
    IN  CHOOSE tbl \in Arrangements(rows) :
           \A i, j \in DOMAIN tbl : i < j => tbl[i].id < tbl[j].id

\* c.execute(sql, [q]): the connection holds the result of this statement
execute(c, q) == [c EXCEPT !.result = Result(FullTextRows(c.db, q))]

\* c.arrow(): the table of the result the connection holds, which is then
\* spent; with no result open the library raises or hands over no rows
arrow(c) ==
    IF c.result.open
    THEN {[out |-> Return(c.result.tbl), conn |-> [c EXCEPT !.result = NoResult]]}
    ELSE {[out |-> Raise("InvalidInputException"), conn |-> c],
          [out |-> Return(<<>>), conn |-> c]}

\* DuckDBFullTextSearcher(conn).search(q) run by itself
SearchAlone(db, q) == SearchResult(FullTextRows(db, q), SCORE, FALSE)

ThreadIdle == [pc |-> "idle", query |-> "", answer |-> NoCall]

ConcurrentInit ==
    /\ FuseIdle
    /\ PipeIdle
    /\ conn \in {Connect(db) : db \in Stores}
    /\ threads = [t \in Threads |-> ThreadIdle]

\* a thread calls fn(q)
CallSearchFn ==
    \E t \in Threads, q \in Queries :
        /\ threads[t].pc = "idle"
        /\ threads' = [threads EXCEPT ![t] = [@ EXCEPT !.pc = "execute", !.query = q]]
        /\ UNCHANGED <<conn, fuseVars, pipeVars>>

\* the thread's self.conn.execute(sql, [query])
Execute ==
    \E t \in Threads :
        /\ threads[t].pc = "execute"
        /\ conn' = execute(conn, threads[t].query)
        /\ threads' = [threads EXCEPT ![t] = [@ EXCEPT !.pc = "arrow"]]
        /\ UNCHANGED <<fuseVars, pipeVars>>

\* the thread's .arrow() on what execute returned, and the return of
\* SearchResult(tbl, self.rank_metric, sorted=False) from search and from fn
Arrow ==
    \E t \in Threads :
        /\ threads[t].pc = "arrow"
        /\ \E o \in arrow(conn) :
              /\ conn' = o.conn
              /\ threads' = [threads EXCEPT ![t] =
                    IF o.out.kind = "return"
                    THEN [@ EXCEPT !.pc = "returned",
                                   !.answer = Return(SearchResult(o.out.value, SCORE, FALSE))]
                    ELSE [@ EXCEPT !.pc = "raised", !.answer = o.out]]
        /\ UNCHANGED <<fuseVars, pipeVars>>

ConcurrentNext == CallSearchFn \/ Execute \/ Arrow

SpecConcurrent == ConcurrentInit /\ [][ConcurrentNext]_vars

----------------------------------------------------------------------------

(* Exact fractions, for the scores of ReciprocalRankFusion *)

Rat(n, d) == [num |-> n, den |-> d]
RatAdd(a, b) == Rat(a.num * b.den + b.num * a.den, a.den * b.den)
RatEq(a, b) == a.num * b.den = b.num * a.den
RatLess(a, b) == a.num * b.den < b.num * a.den

\* the sum, over the rank frames that hold id, of 1 / (k + rank of id there)
RECURSIVE SumOfReciprocals(_, _, _)
SumOfReciprocals(frames, id, k) ==
    IF frames = <<>> THEN Rat(0, 1)
    ELSE LET f == Head(frames)
             rest == SumOfReciprocals(Tail(frames), id, k)
         IN  IF \E i \in DOMAIN f : f[i].id = id
             THEN RatAdd(Rat(1, k + f[CHOOSE i \in DOMAIN f : f[i].id = id].rank), rest)
             ELSE rest

\* the value a table pairs with id (the id occurs once)
ValueOf(tbl, id) == tbl[CHOOSE i \in DOMAIN tbl : tbl[i].id = id].value

FuseReturned(cls) == fusion.cls = cls /\ output.kind = "return"

\* the number of inputs that hold id
Occurrences(srs, id) == Cardinality({n \in DOMAIN srs : id \in IdsOf(srs[n].tbl)})

----------------------------------------------------------------------------
(* Claims on ReciprocalRankFusion *)

\* C1: after ReciprocalRankFusion.fuse returns on Score / Distance inputs, every
\* id of the result is scored the sum, over the inputs that hold it, of
\* 1 / (k + its rank in that input).
C1_ScoreIsSumOfReciprocals ==
    FuseReturned("ReciprocalRankFusion") =>
        \A i \in DOMAIN output.value.tbl :
            LET row == output.value.tbl[i]
            IN  RatEq(row.value, SumOfReciprocals(RankFrames(inputs), row.id, fusion.k))

\* C2: fusing the Score result {(1,0.9),(2,0.5)} with the Distance result
\* {(2,0.1),(3,0.4)} scores id 2 strictly above id 1 and above id 3.
C2_ExampleRanksIdTwoFirst ==
    (FuseReturned("ReciprocalRankFusion") /\ ~k_arg.given /\ inputs = ExampleInputs) =>
        LET t == output.value.tbl
        IN  /\ RatLess(ValueOf(t, 1), ValueOf(t, 2))
            /\ RatLess(ValueOf(t, 3), ValueOf(t, 2))

\* C3: every id of fuse([A, A]) is scored strictly above its score in
\* fuse([A, B]) for an empty B of the same metric.
C3_MoreRankingsScoreHigher ==
    (FuseReturned("ReciprocalRankFusion") /\ Len(inputs) = 2 /\ inputs[1] = inputs[2]) =>
        LET A == inputs[1]
            B == SearchResult(<<>>, A.rank_metric, FALSE)
            alone == RRFRows(<<A, B>>, fusion.k)
        IN  \A i \in DOMAIN output.value.tbl :
                LET row == output.value.tbl[i]
                IN  \A other \in alone :
                        other.id = row.id => RatLess(other.value, row.value)

\* C4: in every input of ReciprocalRankFusion.fuse the ranks are dense and
\* start at 1 for the best value (highest for Score, lowest for Distance):
\* equal values share a rank, a better value has a smaller rank, and every
\* rank above 1 follows a rank that is used.
C4_RanksAreDense ==
    FuseReturned("ReciprocalRankFusion") =>
        /\ Len(ranked) = Len(inputs)
        /\ \A n \in DOMAIN inputs :
            LET t == inputs[n].tbl
                f == ranked[n]
                Better(a, b) == IF inputs[n].rank_metric = SCORE THEN a > b ELSE a < b
            IN  /\ DOMAIN f = DOMAIN t
                /\ \A i \in DOMAIN t :
                    /\ f[i].id = t[i].id
                    /\ f[i].rank >= 1
                    /\ (\A j \in DOMAIN t : ~Better(t[j].value, t[i].value)) => f[i].rank = 1
                    /\ f[i].rank > 1 => \E j \in DOMAIN t : f[j].rank = f[i].rank - 1
                    /\ \A j \in DOMAIN t :
                        /\ t[i].value = t[j].value => f[i].rank = f[j].rank
                        /\ Better(t[i].value, t[j].value) => f[i].rank < f[j].rank

\* C4 witness: an input of three rows, two of them tied, has been ranked in
\* each direction.
C4_Witness ==
    /\ FuseReturned("ReciprocalRankFusion")
    /\ \E n \in DOMAIN inputs :
        /\ Len(inputs[n].tbl) = 3
        /\ inputs[n].rank_metric = DISTANCE
        /\ {ranked[n][i].rank : i \in DOMAIN ranked[n]} = {1, 2}
        /\ inputs[n].tbl[1].value = inputs[n].tbl[2].value
        /\ inputs[n].tbl[3].value < inputs[n].tbl[1].value
        /\ ranked[n][3].rank = 1

\* C5: a ReciprocalRankFusion built with k uses that k in every score, and
\* 60 only when no k is given.
C5_GivenKIsUsed ==
    FuseReturned("ReciprocalRankFusion") =>
        Range(output.value.tbl) =
            RRFRows(inputs, IF k_arg.given THEN k_arg.value ELSE DefaultK)

----------------------------------------------------------------------------
(* Claims on ChainFusion *)

\* C6: the result of ChainFusion.fuse holds no id twice and as many
\* candidates as there are distinct ids over all inputs.
C6_ChainHasEachIdOnce ==
    FuseReturned("ChainFusion") =>
        LET t == output.value.tbl
        IN  /\ \A i, j \in DOMAIN t : t[i].id = t[j].id => i = j
            /\ Len(t) = Cardinality(AllIds(inputs))

\* C6 witness: ChainFusion.fuse has returned on [A, A] with A not empty.
C6_Witness ==
    /\ FuseReturned("ChainFusion")
    /\ Len(inputs) = 2
    /\ inputs[1] = inputs[2]
    /\ Len(inputs[1].tbl) >= 1

\* the first occurrence of id in the inputs, in input order
FirstOccurrence(srs, id) ==
    LET c == Concat([n \in DOMAIN srs |-> srs[n].tbl])
    IN  c[CHOOSE i \in DOMAIN c :
              c[i].id = id /\ \A j \in DOMAIN c : c[j].id = id => i <= j]

\* C7 as claimed: the candidate ChainFusion.fuse keeps for an id is its first
\* occurrence in input order.
C7_ChainKeepsFirstSeen ==
    FuseReturned("ChainFusion") =>
        \A i \in DOMAIN output.value.tbl :
            output.value.tbl[i] = FirstOccurrence(inputs, output.value.tbl[i].id)

\* C7 as amended: the candidate ChainFusion.fuse keeps for an id is one of the
\* occurrences of that id in the inputs.
C7_ChainKeepsAnOccurrence ==
    FuseReturned("ChainFusion") =>
        \A i \in DOMAIN output.value.tbl :
            \E n \in DOMAIN inputs : \E j \in DOMAIN inputs[n].tbl :
                output.value.tbl[i] = inputs[n].tbl[j]

\* C7 witness: an id occurs in two inputs with two values, and the result
\* holds the later one.
C7_Witness ==
    /\ FuseReturned("ChainFusion")
    /\ \E i \in DOMAIN output.value.tbl :
        /\ Occurrences(inputs, output.value.tbl[i].id) = 2
        /\ output.value.tbl[i] # FirstOccurrence(inputs, output.value.tbl[i].id)

----------------------------------------------------------------------------
(* Claims on create_search_fn *)

\* the call of create_search_fn gave no function, and nothing has run
NothingBuilt ==
    /\ build.kind \in {"none", "raise"}
    /\ qpc = "idle"
    /\ answer = NoCall
    /\ trace = <<>>

\* C8: create_search_fn with two or more searchers and no fusion method
\* raises in that call: no search function is returned, no searcher is ever
\* invoked and no query is ever run.
C8_TwoSearchersNeedFusion ==
    (Len(AsList(args.base_searchers)) >= 2 /\ args.fusion_method = NoFusion) =>
        NothingBuilt

\* C8 witness: the call with two searchers and no fusion method has raised.
C8_Witness ==
    /\ Len(AsList(args.base_searchers)) = 2
    /\ args.fusion_method = NoFusion
    /\ build = Raise("AssertionError")

\* C9: create_search_fn with exactly one searcher, alone or in a list, and a
\* fusion method raises in that call and returns no search function.
C9_LoneSearcherRefusesFusion ==
    (Len(AsList(args.base_searchers)) = 1 /\ args.fusion_method # NoFusion) =>
        NothingBuilt

\* C9 witness: the call with a searcher given alone and a fusion method has
\* raised.
C9_Witness ==
    /\ args.base_searchers.isinstance = "BaseSearcher"
    /\ args.fusion_method.cls = "ReciprocalRankFusion"
    /\ build = Raise("AssertionError")

\* C10: create_search_fn with an empty list of searchers raises in that call,
\* whatever fusion method and reranker it is given, and returns no search
\* function.
C10_NoSearcherIsRefused ==
    AsList(args.base_searchers) = <<>> => NothingBuilt

\* C10 witness: the call with an empty list, a fusion method and a reranker
\* has raised.
C10_Witness ==
    /\ args.base_searchers = List(<<>>)
    /\ args.fusion_method # NoFusion
    /\ args.reranker # NoReranker
    /\ build = Raise("Exception")

----------------------------------------------------------------------------
(* Claims C11..C20 *)

\* the built function has the one searcher, no fusion method and no reranker
LonePipeline ==
    /\ build.kind = "return"
    /\ Len(build.value.searchers) = 1
    /\ build.value.fusion_method = NoFusion
    /\ build.value.reranker = NoReranker

\* C11: the function create_search_fn returns for exactly one searcher s, no
\* fusion method and no reranker calls s.search(q) once and nothing else, and
\* returns exactly what that call returned (same candidates, metric and sorted
\* flag) or raises what it raised.
C11_LoneSearcherPassesThrough ==
    (LonePipeline /\ qpc \in {"returned", "raised"}) =>
        /\ trace = <<Called("search", 1, query)>>
        /\ fused = NoCall
        /\ reranking = NoCall
        /\ qpc = "returned" => (Len(results) = 1 /\ answer = Return(results[1]))
        /\ qpc = "raised" => (results = <<>> /\ answer = Raise("StoreError"))

\* C11 witness: a lone vector searcher returned two rows best first, and the
\* function returned them
C11_Witness ==
    /\ LonePipeline
    /\ build.value.searchers[1].cls = "VectorSimilaritySearcher"
    /\ qpc = "returned"
    /\ query = "q"
    /\ Len(results) = 1
    /\ Len(results[1].tbl) = 2
    /\ results[1].sorted
    /\ answer = Return(results[1])

\* the calls a completed fn(q) makes before any reranking: every searcher
\* once, in the order of base_searchers, then fuse if the pipeline fuses
InnerCalls ==
    [i \in 1..Len(build.value.searchers) |-> Called("search", i, query)]
        \o (IF build.value.fuses THEN <<Called("fuse", 0, query)>> ELSE <<>>)

\* C12: in a call of a pipeline built with a reranker, rerank is never called
\* before every searcher call and the fuse call (if any) of the query have
\* returned; in a call that returns it is called exactly once, as the last
\* call, with the query and the output of that final stage, and what rerank
\* returns is what the pipeline returns.
C12_RerankRunsLastOnce ==
    (build.kind = "return" /\ build.value.reranker # NoReranker) =>
        /\ \A j \in DOMAIN trace :
              trace[j].op = "rerank" =>
                 (j = Len(trace) /\ SubSeq(trace, 1, j - 1) = InnerCalls)
        /\ (reranking # NoCall) <=> (qpc = "returned")
        /\ qpc = "returned" =>
              /\ trace = Append(InnerCalls, Called("rerank", 0, query))
              /\ reranking.q = query
              /\ reranking.results = Inner
              /\ build.value.fuses => (fused.kind = "return" /\ reranking.results = fused.value)
              /\ ~build.value.fuses => reranking.results = results[1]
              /\ answer \in rerank(build.value.reranker, query,
                                   reranking.results, reranking.present)

\* C12 witness: two searchers, a fusion method and a reranker; the call
\* returned the reranked rows of a fused result of two ids
C12_Witness ==
    /\ build.kind = "return"
    /\ build.value.reranker # NoReranker
    /\ build.value.fuses
    /\ qpc = "returned"
    /\ Len(trace) = 4
    /\ trace[4].op = "rerank"
    /\ Cardinality(IdsOf(fused.value.tbl)) = 2
    /\ results[1].tbl # fused.value.tbl
    /\ Len(answer.value.tbl) = 2

\* the ids a returned SearchResult names: those of its rows, and those of a
\* field listing missing ids if it carries one
NamedBy(sr) ==
    IdsOf(sr.tbl) \cup (IF "missing" \in DOMAIN sr THEN sr.missing ELSE {})

\* rerank was handed a result of which exactly one id has no document
OneDocMissing ==
    /\ reranking # NoCall
    /\ Cardinality(IdsOf(reranking.results.tbl) \ reranking.present) = 1

ResultsOfOthers ==
    LET others == SelectSeq([i \in 1..Len(results) |-> i],
                            LAMBDA i : build.value.searchers[i].cls # "NullSearcher")
    IN  [j \in 1..Len(others) |-> results[others[j]]]

\* a fusing pipeline of a NullSearcher and at least one other searcher, all of
\* which have answered the query, has called fuse
NullAmongOthersFused ==
    /\ build.kind = "return"
    /\ build.value.fuses
    /\ build.value.fusion_method # NoFusion
    /\ \E i \in DOMAIN build.value.searchers : build.value.searchers[i].cls = "NullSearcher"
    /\ \E i \in DOMAIN build.value.searchers : build.value.searchers[i].cls # "NullSearcher"
    /\ Len(results) = Len(build.value.searchers)
    /\ fused # NoCall

\* C14: a pipeline built from a NullSearcher and one or more other searchers,
\* with ChainFusion or ReciprocalRankFusion, answers the query without error
\* once its searchers have answered, and fuse returns what fusing the other
\* searchers' results alone can return.
C14_NullSearcherIsNeutral ==
    NullAmongOthersFused =>
        /\ fused.kind = "return"
        /\ qpc # "raised"
        /\ fused \in (IF build.value.fusion_method.cls = "ChainFusion"
                      THEN ChainFuseOutcomes(ResultsOfOthers)
                      ELSE RRFFuseOutcomes(build.value.fusion_method, ResultsOfOthers))

\* the number of s.search(q) calls the running call has made
SearchCalls == Cardinality({j \in DOMAIN trace : trace[j].op = "search"})

\* a searcher of a multi-searcher pipeline has failed on the query: it was
\* called and no result came back from it
SearcherFailed ==
    /\ build.kind = "return"
    /\ Len(build.value.searchers) >= 2
    /\ SearchCalls = Len(results) + 1

\* C15: if a searcher of a multi-searcher pipeline fails on a query, the whole
\* call fails with that searcher's error: the failed search is the last call
\* made, neither fuse nor rerank is invoked for the query, and no result
\* (built from the other searchers or otherwise) is returned.
C15_SearcherFailureFailsTheCall ==
    SearcherFailed =>
        /\ qpc = "raised"
        /\ answer = Raise("StoreError")
        /\ trace = [i \in 1..(Len(results) + 1) |-> Called("search", i, query)]
        /\ fused = NoCall
        /\ reranking = NoCall

\* C15 witness: in a pipeline of two searchers with a fusion method and a
\* reranker, the first searcher returned rows and the second one failed
C15_Witness ==
    /\ SearcherFailed
    /\ build.value.fusion_method # NoFusion
    /\ build.value.reranker # NoReranker
    /\ Len(results) = 1
    /\ Len(results[1].tbl) >= 1
    /\ answer.kind = "raise"

\* the searchers of the built function that have been called in the running
\* call: searcher i was called when the trace has its search entry
CalledSearchers ==
    {i \in DOMAIN build.value.searchers :
        \E j \in DOMAIN trace : trace[j] = Called("search", i, query)}

\* C16: every call of NullSearcher.search, for the empty query as for any
\* other and for a second NullSearcher call of the same query as for the
\* first, returns a SearchResult with zero candidates, metric Undefined and
\* sorted = false; the call never fails.
C16_NullSearcherReturnsEmpty ==
    build.kind = "return" =>
        \A i \in CalledSearchers :
            build.value.searchers[i].cls = "NullSearcher" =>
                /\ i \in DOMAIN results
                /\ results[i] = SearchResult(<<>>, UNDEFINED, FALSE)
                /\ Len(results[i].tbl) = 0

\* C16 witness: two NullSearchers were called with the empty query
C16_Witness ==
    /\ build.kind = "return"
    /\ query = ""
    /\ CalledSearchers = {1, 2}
    /\ \A i \in {1, 2} : build.value.searchers[i].cls = "NullSearcher"
    /\ Len(results) = 2

\* the k a ReciprocalRankFusion was asked to use: the one given to it, else
\* the default
AskedK == IF k_arg.given THEN k_arg.value ELSE DefaultK

\* C17: fusing a single input A is a pass-through: ChainFusion.fuse([A]) holds
\* exactly the distinct ids of A, each once with a value it has in A, and
\* ReciprocalRankFusion.fuse([A]) holds exactly the ids of A, each scored
\* 1 / (k + its dense rank in A).
C17_SingleInputPassesThrough ==
    (Len(inputs) = 1 /\ output.kind = "return") =>
        LET A == inputs[1].tbl
            t == output.value.tbl
        IN  /\ IdsOf(t) = IdsOf(A)
            /\ Len(t) = Cardinality(IdsOf(A))
            /\ fusion.cls = "ChainFusion" =>
                  \A i \in DOMAIN t : \E j \in DOMAIN A : t[i] = A[j]
            /\ fusion.cls = "ReciprocalRankFusion" =>
                  \A i \in DOMAIN t : \E j \in DOMAIN A :
                      /\ A[j].id = t[i].id
                      /\ RatEq(t[i].value,
                               Rat(1, AskedK + DenseRank(A, j, descending(inputs[1]) = "True")))

\* C18: fuse called with an empty list of SearchResults fails, for ChainFusion
\* (pyarrow refuses to concatenate no table) as for ReciprocalRankFusion
\* (polars refuses to concatenate no frame), and returns no SearchResult.
C18_EmptyInputFails ==
    (inputs = <<>> /\ output # NoCall) =>
        /\ output.kind = "raise"
        /\ "value" \notin DOMAIN output
        /\ fusion.cls = "ChainFusion" => output = Raise("ArrowInvalid")
        /\ fusion.cls = "ReciprocalRankFusion" => output = Raise("ValueError")

\* C18 witness: ChainFusion.fuse was called with the empty list and raised
C18_Witness ==
    /\ inputs = <<>>
    /\ fusion.cls = "ChainFusion"
    /\ output.kind = "raise"

\* every searcher of the running call has answered, each with zero candidates,
\* and the call is over
AllSearchersEmpty ==
    /\ build.kind = "return"
    /\ Len(results) = Len(build.value.searchers)
    /\ \A i \in DOMAIN results : results[i].tbl = <<>>
    /\ qpc \in {"returned", "raised"}

\* C19: a pipeline call in which every searcher returns zero candidates
\* completes without error and returns a SearchResult with zero candidates,
\* for every valid combination of searchers, fusion method and optional
\* reranker.
C19_EmptySearchesGiveEmptyResult ==
    AllSearchersEmpty =>
        /\ qpc = "returned"
        /\ answer.kind = "return"
        /\ answer.value.tbl = <<>>

\* C20: whatever the metrics and sorted flags of its inputs, a result returned
\* by ChainFusion.fuse is tagged metric Undefined and sorted = false, and a
\* result returned by ReciprocalRankFusion.fuse is tagged metric Score and
\* sorted = false.
C20_FusedTagsAreFixed ==
    /\ FuseReturned("ChainFusion") =>
          (output.value.rank_metric = UNDEFINED /\ output.value.sorted = FALSE)
    /\ FuseReturned("ReciprocalRankFusion") =>
          (output.value.rank_metric = SCORE /\ output.value.sorted = FALSE)

\* C20 witness: ReciprocalRankFusion.fuse returned on two inputs, one a sorted
\* Distance result and one an unsorted Score result
C20_Witness ==
    /\ FuseReturned("ReciprocalRankFusion")
    /\ Len(inputs) = 2
    /\ inputs[1].rank_metric = DISTANCE
    /\ inputs[1].sorted
    /\ inputs[1].tbl # <<>>
    /\ inputs[2].rank_metric = SCORE
    /\ ~inputs[2].sorted

----------------------------------------------------------------------------
(* Claims C21..C30 *)

\* C21: the result of ReciprocalRankFusion.fuse holds each id that occurs in
\* at least one input exactly once and no other id: its id set is the union
\* of the inputs' id sets, so an id missing from some input is neither left
\* out nor repeated.
C21_RRFIdsAreTheUnion ==
    FuseReturned("ReciprocalRankFusion") =>
        LET t == output.value.tbl
        IN  /\ IdsOf(t) = UNION {IdsOf(inputs[n].tbl) : n \in DOMAIN inputs}
            /\ \A i, j \in DOMAIN t : t[i].id = t[j].id => i = j

\* C21 witness: fuse returned on two inputs that share one id and each hold
\* an id the other lacks
C21_Witness ==
    /\ FuseReturned("ReciprocalRankFusion")
    /\ Len(inputs) = 2
    /\ IdsOf(inputs[1].tbl) \cap IdsOf(inputs[2].tbl) # {}
    /\ IdsOf(inputs[1].tbl) \ IdsOf(inputs[2].tbl) # {}
    /\ IdsOf(inputs[2].tbl) \ IdsOf(inputs[1].tbl) # {}
    /\ Len(output.value.tbl) = 3

\* the positions of the fuse calls in the trace of the running call
FuseCalls == {j \in DOMAIN trace : trace[j].op = "fuse"}

\* C22: in every call of a multi-searcher pipeline fuse is invoked at most
\* once and, in a call whose searchers all return, exactly once; it is invoked
\* only after every configured searcher has been invoked exactly once with the
\* query and has returned, and it receives exactly one result per configured
\* searcher, in the order the searchers were configured.
C22_FuseRunsOnceAfterAllSearchers ==
    (build.kind = "return" /\ Len(build.value.searchers) >= 2) =>
        LET n == Len(build.value.searchers)
        IN  /\ \A j \in FuseCalls :
                  /\ j = n + 1
                  /\ SubSeq(trace, 1, n) = [i \in 1..n |-> Called("search", i, query)]
                  /\ Len(results) = n
            /\ (fused # NoCall) <=> (FuseCalls # {})
            /\ (Len(results) = n /\ qpc \in {"fused", "returned", "raised"}) => FuseCalls = {n + 1}
            /\ qpc \in {"fused", "returned"} => FuseCalls = {n + 1}
            /\ fused # NoCall =>
                  /\ Len(inputs) = n
                  /\ inputs = results
                  /\ \A i \in 1..n :
                        inputs[i].rank_metric = build.value.searchers[i].rank_metric

\* C22 witness: two searchers of different metrics both returned rows and
\* fuse was called with their two results
C22_Witness ==
    /\ build.kind = "return"
    /\ Len(build.value.searchers) = 2
    /\ build.value.searchers[1].rank_metric # build.value.searchers[2].rank_metric
    /\ FuseCalls = {3}
    /\ fused.kind = "return"
    /\ Len(inputs) = 2
    /\ inputs[1].tbl # <<>>
    /\ inputs[2].tbl # <<>>

\* a table holds no id twice
NoIdTwice(tbl) == \A i, j \in DOMAIN tbl : tbl[i].id = tbl[j].id => i = j

\* C23, as claimed: whenever rerank is invoked by a pipeline, the candidate
\* set it receives holds no id twice and is the output of a fusion stage,
\* never the raw output of a single searcher.
C23_RerankGetsFusedSet ==
    reranking # NoCall =>
        /\ NoIdTwice(reranking.results.tbl)
        /\ fused.kind = "return"
        /\ reranking.results = fused.value

\* C23, as the code has it: whenever rerank is invoked by a pipeline of two or
\* more searchers, the candidate set it receives is the output of the fusion
\* stage and holds each id of the searchers' results exactly once; invoked by
\* a pipeline of one searcher, where no fusion stage exists, it receives the
\* raw output of that searcher.
C23_RerankGetsFinalStage ==
    reranking # NoCall =>
        /\ Len(build.value.searchers) >= 2 =>
              /\ fused.kind = "return"
              /\ reranking.results = fused.value
              /\ NoIdTwice(reranking.results.tbl)
              /\ IdsOf(reranking.results.tbl) =
                     UNION {IdsOf(results[i].tbl) : i \in DOMAIN results}
        /\ Len(build.value.searchers) = 1 =>
              /\ fused = NoCall
              /\ reranking.results = results[1]

\* C23 witness: rerank was invoked on the fusion of two results that share an id
C23_Witness ==
    /\ reranking # NoCall
    /\ Len(build.value.searchers) = 2
    /\ IdsOf(results[1].tbl) \cap IdsOf(results[2].tbl) # {}
    /\ reranking.results = fused.value

\* the ids rerank was handed that have a document
Fetched == IdsOf(reranking.results.tbl) \cap reranking.present

\* C24: the result of rerank (MSMarcoCrossEncoder, JinaRerankerV2,
\* ColbertReranker) has metric Score, holds only ids that were in its input
\* and had a document text, and pairs each id with the score the relevance
\* model gave to that id's own document, in whatever order the documents were
\* fetched; MSMarcoCrossEncoder and JinaRerankerV2 return every such id, and
\* ColbertReranker the max_count best of them.
C24_RerankScoresEachIdsOwnDocument ==
    (reranking # NoCall /\ answer.kind = "return") =>
        LET t == answer.value.tbl
            self == build.value.reranker
        IN  /\ answer.value.rank_metric = SCORE
            /\ IdsOf(t) \subseteq Fetched
            /\ NoIdTwice(t)
            /\ \A i \in DOMAIN t : t[i].value = Relevance(reranking.q, t[i].id)
            /\ self.cls \in {"MSMarcoCrossEncoder", "JinaRerankerV2"} => IdsOf(t) = Fetched
            /\ self.cls = "ColbertReranker" =>
                  /\ Len(t) = (IF self.max_count < Cardinality(Fetched)
                               THEN self.max_count ELSE Cardinality(Fetched))
                  /\ \A id \in Fetched \ IdsOf(t) : \A i \in DOMAIN t :
                        Relevance(reranking.q, id) <= t[i].value

\* C24 witness: a reranker was handed three candidates, one without a
\* document, and returned the two others with different scores
C24_Witness ==
    /\ reranking # NoCall
    /\ answer.kind = "return"
    /\ Len(reranking.results.tbl) = 3
    /\ Cardinality(Fetched) = 2
    /\ Len(answer.value.tbl) = 2
    /\ answer.value.tbl[1].value # answer.value.tbl[2].value
    /\ answer.value.tbl[1].id > answer.value.tbl[2].id

\* C25: no SearchResult with metric Undefined is ordered or truncated by its
\* values: SearchResult.retrieve on a result with metric Undefined returns no
\* row set at all (it raises before the query is run), and
\* ReciprocalRankFusion.fuse handed an Undefined input raises without ranking
\* any input.
C25_UndefinedIsNeverOrdered ==
    /\ (retrieval # NoCall /\ retrieval.self.rank_metric = UNDEFINED) =>
          retrieval.out = Raise("Exception")
    /\ (fusion.cls = "ReciprocalRankFusion" /\ output # NoCall
           /\ \E n \in DOMAIN inputs : inputs[n].rank_metric = UNDEFINED) =>
          (output = Raise("Exception") /\ ranked = <<>>)

\* C25 witness: retrieve was called with max_count 2 on an Undefined result of
\* three rows, and ReciprocalRankFusion.fuse was called on it
C25_Witness ==
    /\ retrieval # NoCall
    /\ retrieval.self.rank_metric = UNDEFINED
    /\ Len(retrieval.self.tbl) = 3
    /\ retrieval.max_count = 2
    /\ fusion.cls = "ReciprocalRankFusion"
    /\ output # NoCall

\* a SearchResult tagged sorted is best first for an ordering metric
TruthfullySorted(sr) ==
    sr.sorted =>
        /\ sr.rank_metric \in {SCORE, DISTANCE}
        /\ \A i, j \in DOMAIN sr.tbl :
              i < j => IF sr.rank_metric = SCORE
                       THEN sr.tbl[i].value >= sr.tbl[j].value
                       ELSE sr.tbl[i].value <= sr.tbl[j].value

\* C26: every SearchResult a searcher, a fusion method or a reranker returns
\* with sorted = true has its candidates arranged best first for its metric
\* (non-increasing values for Score, non-decreasing values for Distance), and
\* its metric is not Undefined.
C26_SortedResultsAreBestFirst ==
    /\ \A i \in DOMAIN results : TruthfullySorted(results[i])
    /\ fused.kind = "return" => TruthfullySorted(fused.value)
    /\ answer.kind = "return" => TruthfullySorted(answer.value)

\* C26 witness: a vector search on the index returned two rows of different
\* distances tagged sorted, and ColbertReranker returned two rows of different
\* scores tagged sorted
C26_Witness ==
    /\ Len(results) = 1
    /\ results[1].sorted
    /\ results[1].rank_metric = DISTANCE
    /\ Len(results[1].tbl) = 2
    /\ results[1].tbl[1].value < results[1].tbl[2].value
    /\ answer.kind = "return"
    /\ build.value.reranker.cls = "ColbertReranker"
    /\ answer.value.sorted
    /\ Len(answer.value.tbl) = 2
    /\ answer.value.tbl[1].value > answer.value.tbl[2].value

\* value v is at least as good as value w for the metric
AsGoodAs(v, w, metric) == IF metric = SCORE THEN v >= w ELSE v <= w

\* C27: SearchResult.retrieve returns at most max_count display rows (one per
\* candidate when the result holds no more than max_count), and on a result
\* with sorted = false and metric Score or Distance the rows are ordered best
\* first by the metric before the limit is applied: the rows returned are the
\* max_count best candidates, best first.
C27_RetrieveReturnsTheBest ==
    retrieval # NoCall =>
        LET self == retrieval.self
            out == retrieval.out
        IN  /\ (~self.sorted /\ self.rank_metric \in {SCORE, DISTANCE}) => out.kind = "return"
            /\ out.kind = "return" =>
                  LET rows == out.value
                      shown == {rows[i].entry : i \in DOMAIN rows}
                  IN  /\ Len(rows) <= retrieval.max_count
                      /\ Len(rows) = (IF Len(self.tbl) > retrieval.max_count
                                      THEN retrieval.max_count ELSE Len(self.tbl))
                      /\ shown \subseteq IdsOf(self.tbl)
                      /\ Cardinality(shown) = Len(rows)
                      /\ ~self.sorted =>
                            /\ \A i, j \in DOMAIN rows :
                                  i < j => AsGoodAs(ValueOf(self.tbl, rows[i].entry),
                                                    ValueOf(self.tbl, rows[j].entry),
                                                    self.rank_metric)
                            /\ \A id \in IdsOf(self.tbl) \ shown : \A i \in DOMAIN rows :
                                  AsGoodAs(ValueOf(self.tbl, rows[i].entry),
                                           ValueOf(self.tbl, id), self.rank_metric)

\* C27 witness: retrieve with max_count 2 on an unsorted Distance result of
\* three rows whose first row is the worst returned the two others
C27_Witness ==
    /\ retrieval # NoCall
    /\ ~retrieval.self.sorted
    /\ retrieval.self.rank_metric = DISTANCE
    /\ Len(retrieval.self.tbl) = 3
    /\ retrieval.max_count = 2
    /\ retrieval.out.kind = "return"
    /\ Len(retrieval.out.value) = 2
    /\ \A i \in {1, 2} :
          /\ retrieval.out.value[i].entry # retrieval.self.tbl[1].id
          /\ ValueOf(retrieval.self.tbl, retrieval.out.value[i].entry) < retrieval.self.tbl[1].value

\* C28: fuse and rerank never modify a SearchResult they receive: across the
\* step of a fuse call every searcher's result (candidates, metric, sorted
\* flag) is what it was and what fuse was handed, and across the step of a
\* rerank call so are the searchers' results and the fused result; the
\* SearchResult either returns is a new instance, distinct from every input.
C28_FuseAndRerankLeaveInputsAlone ==
    [][ /\ (fused = NoCall /\ fused' # NoCall) =>
              /\ results' = results
              /\ inputs' = results
              /\ instance'.results = instance.results
              /\ fused'.kind = "return" =>
                    /\ instance'.fused # 0
                    /\ instance'.fused \notin Range(instance'.results)
        /\ (reranking = NoCall /\ reranking' # NoCall) =>
              /\ results' = results
              /\ fused' = fused
              /\ reranking'.results = Inner
              /\ instance'.results = instance.results
              /\ instance'.fused = instance.fused
              /\ instance'.answer # 0
              /\ instance'.answer \notin Range(instance.results) \cup {instance.fused}
      ]_vars

\* C28 witness: two non-empty results were fused and the fused result was
\* reranked
C28_Witness ==
    /\ Len(results) = 2
    /\ results[1].tbl # <<>>
    /\ results[2].tbl # <<>>
    /\ fused.kind = "return"
    /\ reranking # NoCall
    /\ answer.kind = "return"
    /\ instance = [made |-> 4, results |-> <<1, 2>>, fused |-> 3, answer |-> 4]

\* one run of the built function on the same query when the searchers answer
\* as they did (same store): an outcome of the fusion stage on the same
\* results, passed on or reranked with the same documents.  It is a function
\* of the pipeline, the query and the store alone, so the runs that agree with
\* it agree with one another.
OtherRun ==
    LET fn == build.value
        inner == IF ~fn.fuses THEN {Return(results[1])}
                 ELSE IF fn.fusion_method.cls = "ChainFusion"
                 THEN ChainFuseOutcomes(results)
                 ELSE RRFFuseOutcomes(fn.fusion_method, results)
        f == CHOOSE g \in inner : g.kind = "return"
    IN  IF fn.reranker = NoReranker THEN f
        ELSE CHOOSE o \in rerank(fn.reranker, query, f.value, reranking.present) : TRUE

\* a call has returned a SearchResult
RunReturned ==
    /\ build.kind = "return"
    /\ qpc = "returned"
    /\ answer.kind = "return"

----------------------------------------------------------------------------
(* C30, under SpecConcurrent: threads sharing the search function *)

\* the thread's call is over
Over(t) == threads[t].pc \in {"returned", "raised"}

\* C30: every query run concurrently with others through the same search
\* function returns the result it would return when run alone: the same
\* candidates, metric and sorted flag.
\* Refuted: thread 1 runs execute for "q", thread 2 runs execute for "", then
\* thread 1 runs arrow and returns the rows of thread 2's statement.
C30_ConcurrentQueriesDoNotInterfere ==
    \A t \in Threads :
        Over(t) =>
            /\ threads[t].answer.kind = "return"
            /\ LET alone == SearchAlone(conn.db, threads[t].query)
                   got == threads[t].answer.value
               IN  /\ Range(got.tbl) = Range(alone.tbl)
                   /\ got.rank_metric = alone.rank_metric
                   /\ got.sorted = alone.sorted

====
